---- MODULE Spec2Model ----
(***************************************************************************)
(* A model of the media file tools: the filename transformer               *)
(* (process_filename), the recursive renamer (rename_files_in_directory),  *)
(* the folder promoter (move_files_to_individual_folders and its           *)
(* standalone twin build_folders_mv_files) and the standalone prefix       *)
(* stripper (strip_prefix_from_filenames).                                 *)
(*                                                                         *)
(* File names are TLA+ strings.  A filesystem is a set of nodes, each a    *)
(* record [path, kind, orig]: path is the sequence of names below the      *)
(* target directory, kind is "file" or "dir", and orig is the path the     *)
(* node had when the model started (its identity).  Only regular files and *)
(* directories are modelled; symbolic links are not.                       *)
(***************************************************************************)
EXTENDS Integers, Sequences, FiniteSets, TLC

(***************************************************************************)
(* Bounds of the model.                                                    *)
(***************************************************************************)
\* A transformer input is the concatenation of at most MaxPieces pieces.
MaxPieces == 3

\* The target directory starts with at most MaxRootFiles files of its own.
MaxRootFiles == 2

\* Its subdirectory, when there is one, starts with at most MaxSubFiles files.
MaxSubFiles == 2

\* At most MaxFailures filesystem calls of a run fail for reasons outside the
\* model (permissions, a full disk).
MaxFailures == 1

(***************************************************************************)
(* Strings.                                                                *)
(***************************************************************************)
Char(s, i) == SubSeq(s, i, i)

Max(a, b) == IF a >= b THEN a ELSE b

\* s[:n] and s[n:] of Python, for 0 <= n.
Take(s, n) == SubSeq(s, 1, IF n <= Len(s) THEN n ELSE Len(s))

Drop(s, n) == SubSeq(s, n + 1, Len(s))

\* str.startswith
startswith(s, p) == Len(p) <= Len(s) /\ Take(s, Len(p)) = p

\* str.endswith
endswith(s, p) == Len(p) <= Len(s) /\ Drop(s, Len(s) - Len(p)) = p

\* sub in s
Contains(s, sub) == \E i \in 0..(Len(s) - Len(sub)) : SubSeq(s, i + 1, i + Len(sub)) = sub

\* str.rfind('.') + 1: the position of the last dot, 0 when there is none.
LastDot(s) ==
  LET dots == {i \in 1..Len(s) : Char(s, i) = "."}
  IN  IF dots = {} THEN 0 ELSE CHOOSE i \in dots : \A j \in dots : j <= i

\* A variant of splitext that never splits an extension off.
splitext_none(p) == <<p, "">>

\* os.path.splitext on a name without a directory separator: the extension
\* starts at the last dot, unless only dots precede that dot.
splitext(p) ==
  LET d == LastDot(p)
  IN  IF d > 0 /\ \E i \in 1..(d - 1) : Char(p, i) # "."
      THEN <<Take(p, d - 1), Drop(p, d - 1)>>
      ELSE <<p, "">>

\* str.replace(sub, ""): every non-overlapping occurrence, leftmost first.
RECURSIVE replace(_, _)
replace(s, sub) ==
  IF sub = "" \/ Len(s) < Len(sub) THEN s
  ELSE IF startswith(s, sub) THEN replace(Drop(s, Len(sub)), sub)
  ELSE Char(s, 1) \o replace(Drop(s, 1), sub)

\* The ASCII characters str.strip() and str.split() take as whitespace
\* (str.isspace): tab, newline, vertical tab, form feed, carriage return,
\* U+001C to U+001F and space. The strings of this module are ASCII: the
\* Unicode spaces beyond (U+0085, U+00A0, U+1680, U+2000 to U+200A, U+2028,
\* U+2029, U+202F, U+205F, U+3000) occur in no name of the model.
Whitespace ==
  {"\t", "\n", "", "\f", "\r", "", "", "", "", " "}

IsSpace(c) == c \in Whitespace

\* str.strip(): leading and trailing whitespace removed.
RECURSIVE lstrip(_)
lstrip(s) == IF s # "" /\ IsSpace(Char(s, 1)) THEN lstrip(Drop(s, 1)) ELSE s

RECURSIVE rstrip(_)
rstrip(s) ==
  IF s # "" /\ IsSpace(Char(s, Len(s))) THEN rstrip(Take(s, Len(s) - 1)) ELSE s

strip(s) == rstrip(lstrip(s))

\* The length of the first word of s (s starts with a non-space).
RECURSIVE WordLen(_)
WordLen(s) == IF s = "" \/ IsSpace(Char(s, 1)) THEN 0 ELSE 1 + WordLen(Drop(s, 1))

\* str.split(): the maximal runs of non-whitespace, in order.
RECURSIVE split(_)
split(s) ==
  LET t == lstrip(s)
  IN  IF t = "" THEN <<>>
      ELSE <<Take(t, WordLen(t))>> \o split(Drop(t, WordLen(t)))

\* " ".join(words)
RECURSIVE join(_)
join(words) ==
  IF words = <<>> THEN ""
  ELSE IF Len(words) = 1 THEN words[1]
  ELSE words[1] \o " " \o join(Tail(words))

\* The character class [_.\-] of the clean step.
IsSeparator(c) == c \in {"_", ".", "-"}

RECURSIVE SkipSeparators(_)
SkipSeparators(s) ==
  IF s # "" /\ IsSeparator(Char(s, 1)) THEN SkipSeparators(Drop(s, 1)) ELSE s

\* re.sub(r'[_.\-]+', ' ', s): every maximal run of separators becomes one space.
RECURSIVE SubSeparators(_)
SubSeparators(s) ==
  IF s = "" THEN ""
  ELSE IF IsSeparator(Char(s, 1)) THEN " " \o SubSeparators(SkipSeparators(s))
  ELSE Char(s, 1) \o SubSeparators(Drop(s, 1))

\* The lower-case form of an ASCII letter (re.IGNORECASE on literals). The
\* strings of this module are ASCII: the three other characters that match a
\* letter of the removal list under IGNORECASE (U+0130 and U+0131 match "i",
\* U+017F matches "s") occur in no name of the model.
LowerChar(c) ==
  CASE c = "A" -> "a" [] c = "B" -> "b" [] c = "C" -> "c" [] c = "D" -> "d"
    [] c = "E" -> "e" [] c = "F" -> "f" [] c = "G" -> "g" [] c = "H" -> "h"
    [] c = "I" -> "i" [] c = "J" -> "j" [] c = "K" -> "k" [] c = "L" -> "l"
    [] c = "M" -> "m" [] c = "N" -> "n" [] c = "O" -> "o" [] c = "P" -> "p"
    [] c = "Q" -> "q" [] c = "R" -> "r" [] c = "S" -> "s" [] c = "T" -> "t"
    [] c = "U" -> "u" [] c = "V" -> "v" [] c = "W" -> "w" [] c = "X" -> "x"
    [] c = "Y" -> "y" [] c = "Z" -> "z" [] OTHER -> c

RECURSIVE Lower(_)
Lower(s) == IF s = "" THEN "" ELSE LowerChar(Char(s, 1)) \o Lower(Drop(s, 1))

\* The removal list of the clean step, in source order.
chars_to_remove ==
  << "web-dl", "blueray", "dd5.1", "cmrg",
     "[tgx]", "hevc", "webrip", "hdr", "av1", "opus",
     "5.1", "h265", "x265", "x264", "h264" >>

SameLen(n, t) == Len(t) = n

\* sorted(tokens, key=len, reverse=True): longest first, the sort being stable.
RECURSIVE SortedFrom(_, _)
SortedFrom(tokens, n) ==
  IF n = 0 THEN <<>>
  ELSE SelectSeq(tokens, LAMBDA t : SameLen(n, t)) \o SortedFrom(tokens, n - 1)

RECURSIVE MaxLenOf(_)
MaxLenOf(tokens) ==
  IF tokens = <<>> THEN 0 ELSE Max(Len(Head(tokens)), MaxLenOf(Tail(tokens)))

sorted_by_len(tokens) == SortedFrom(tokens, MaxLenOf(tokens))

pattern_to_remove == sorted_by_len(chars_to_remove)

\* The alternation pattern matched at the start of s: the length of the first
\* alternative that matches there ignoring case, 0 when none does.
RECURSIVE MatchAt(_, _)
MatchAt(s, alts) ==
  IF alts = <<>> THEN 0
  ELSE IF Len(Head(alts)) <= Len(s) /\ Lower(Take(s, Len(Head(alts)))) = Head(alts)
       THEN Len(Head(alts))
       ELSE MatchAt(s, Tail(alts))

\* re.sub(pattern_to_remove, '', s, flags=re.IGNORECASE): scanning left to
\* right, a match is deleted and the scan resumes after it.
RECURSIVE SubTokens(_, _)
SubTokens(s, alts) ==
  IF s = "" THEN ""
  ELSE LET n == MatchAt(s, alts)
       IN  IF n > 0 THEN SubTokens(Drop(s, n), alts)
           ELSE Char(s, 1) \o SubTokens(Drop(s, 1), alts)

\* The clean step: separators to spaces, tokens removed, braces removed,
\* whitespace collapsed and trimmed.
clean(s) ==
  LET spaced  == SubSeparators(s)
      removed == SubTokens(spaced, pattern_to_remove)
      nobrace == replace(replace(removed, "{"), "}")
  IN  strip(join(split(nobrace)))

\* A variant of strip_prefix that drops the prefix's length without looking
\* whether the name starts with it.
strip_prefix_unchecked(s, prefix) ==
  IF prefix # "" THEN Drop(s, Len(prefix)) ELSE s

\* A variant of strip_prefix that strips the prefix as often as it matches.
RECURSIVE strip_prefix_repeated(_, _)
strip_prefix_repeated(s, prefix) ==
  IF prefix # "" /\ startswith(s, prefix)
  THEN strip_prefix_repeated(Drop(s, Len(prefix)), prefix)
  ELSE s

\* Step 1: the prefix is stripped once from the start (None is modelled as "").
strip_prefix(s, prefix) ==
  IF prefix # "" /\ startswith(s, prefix) THEN Drop(s, Len(prefix)) ELSE s

\* Step 2: the postfix is stripped once from the end.
strip_postfix(s, postfix) ==
  IF postfix # "" /\ endswith(s, postfix) THEN Take(s, Len(s) - Len(postfix)) ELSE s

\* Step 3: every occurrence of remove_str is removed.
remove_substring(s, remove_str) ==
  IF remove_str # "" THEN replace(s, remove_str) ELSE s

\* Step 4: the clean step, when asked for.
clean_if(s, perform_clean) == IF perform_clean THEN clean(s) ELSE s

\* The value returned: the new name when the stem changed, else the name itself.
returned_name(filename, name_part, new_name_part, extension) ==
  IF new_name_part # name_part THEN strip(new_name_part) \o extension ELSE filename

process_filename(filename, prefix, postfix, remove_str, perform_clean) ==
  LET name_part == splitext(filename)[1]
      extension == splitext(filename)[2]
      s1 == strip_prefix(name_part, prefix)
      s2 == strip_postfix(s1, postfix)
      s3 == remove_substring(s2, remove_str)
      s4 == clean_if(s3, perform_clean)
  IN  returned_name(filename, name_part, s4, extension)

(***************************************************************************)
(* The filesystem.                                                         *)
(***************************************************************************)
VARIABLES
  tool,      \* the program run
  args,      \* its command line
  plan,      \* the dry_run flags of the runs that follow this one
  pc,        \* where the run is
  fs,        \* the filesystem below the target directory
  fsStart,   \* the filesystem when this run started
  stack,     \* os.walk: the directories still to visit
  root,      \* os.walk: the directory being visited
  files,     \* the names still to process (os.walk's files, or all_items)
  log,       \* what this run reported, one entry per item
  prev,      \* the run before this one: its dry_run, fsStart and log
  failures,  \* the filesystem calls that failed from outside so far
  filename,  \* the transformer checks: the input name
  out1,      \* process_filename(filename)
  out2       \* process_filename(out1)

vars == <<tool, args, plan, pc, fs, fsStart, stack, root, files, log, prev,
          failures, filename, out1, out2>>

\* The permutations of a finite set, as sequences: a directory lists in any order.
Perms(S) ==
  {f \in [1..Cardinality(S) -> S] : \A i, j \in 1..Cardinality(S) : f[i] = f[j] => i = j}

\* os.path.exists(os.path.join(dir, name)): joining "" gives the directory
\* itself, "." and ".." name directories too.
exists(F, dir, name) ==
  name \in {"", ".", ".."} \/ \E n \in F : n.path = Append(dir, name)

isfile(F, dir, name) == \E n \in F : n.path = Append(dir, name) /\ n.kind = "file"

isdir(F, dir, name) ==
  name \in {"", ".", ".."} \/ \E n \in F : n.path = Append(dir, name) /\ n.kind = "dir"

NodeAt(F, path) == CHOOSE n \in F : n.path = path

\* os.listdir(dir): the names in dir.
listdir(F, dir) ==
  {n.path[Len(n.path)] : n \in {m \in F : Len(m.path) = Len(dir) + 1 /\ Take(m.path, Len(dir)) = dir}}

\* os.rename(dir/name, dir/new) raises OSError: the source is gone, or the
\* destination is a directory.
rename_raises(F, dir, name, new) ==
  ~ isfile(F, dir, name) \/ isdir(F, dir, new)

\* os.rename(dir/name, dir/new) when it succeeds: a file at the destination is
\* replaced.
os_rename(F, dir, name, new) ==
  IF new = name THEN F
  ELSE {n \in F : n.path \notin {Append(dir, name), Append(dir, new)}}
         \cup {[NodeAt(F, Append(dir, name)) EXCEPT !.path = Append(dir, new)]}

\* os.makedirs(dir/name), the name being free.
os_makedirs(F, dir, name) ==
  F \cup {[path |-> Append(dir, name), kind |-> "dir", orig |-> <<>>]}

\* shutil.move(dir/name, dir/folder) raises: the destination directory already
\* holds the name.
move_raises(F, dir, name, folder) ==
  \/ ~ isfile(F, dir, name)
  \/ /\ isdir(F, dir, folder)
     /\ exists(F, Append(dir, folder), name)

\* shutil.move(dir/name, dir/folder) when it succeeds: into the folder when it is
\* a directory, else os.rename onto dir/folder itself.
shutil_move(F, dir, name, folder) ==
  IF isdir(F, dir, folder)
  THEN {n \in F : n.path # Append(dir, name)}
         \cup {[NodeAt(F, Append(dir, name)) EXCEPT !.path = Append(Append(dir, folder), name)]}
  ELSE os_rename(F, dir, name, folder)

\* The path shutil.move renames the file to: real_dst.
real_dst(F, dir, name, folder) ==
  IF isdir(F, dir, folder) THEN Append(Append(dir, folder), name) ELSE Append(dir, folder)

\* shutil.move(dir/name, dir/folder) when its os.rename fails from outside: it
\* falls back to copy2(src, real_dst) and os.unlink(src), and raises when one of
\* them fails. The copy is not made (the source is real_dst itself, or a file
\* could not be opened), or it is cut short, or it is complete and the source
\* could not be removed; a copy replaces a plain file at real_dst. A copy cut
\* short holds the content of no file (orig <<>>).
move_failed(F, dir, name, folder) ==
  LET src  == Append(dir, name)
      dst  == real_dst(F, dir, name, folder)
      rest == {n \in F : n.path # dst}
  IN  IF dst = src THEN {F}
      ELSE {F,
            rest \cup {[path |-> dst, kind |-> "file", orig |-> <<>>]},
            rest \cup {[path |-> dst, kind |-> "file", orig |-> NodeAt(F, src).orig]}}

(***************************************************************************)
(* The initial states of the tools.                                        *)
(***************************************************************************)
\* The names a file of the target directory may have.
RootNames == {"a", "xa", "x a", "xb", "a.t", "a.u", "x"}

\* The subdirectory the target directory may have, and the names of its files.
SubDir == "a"

SubNames == {"xa", "x a", "a.t"}

AtMost(S, k) == {T \in SUBSET S : Cardinality(T) <= k}

FileNode(path) == [path |-> path, kind |-> "file", orig |-> path]

DirNode(path) == [path |-> path, kind |-> "dir", orig |-> path]

\* The trees a run may start from: files in the target directory, and possibly
\* one subdirectory with files of its own.
Trees ==
  {{FileNode(<<n>>) : n \in S} : S \in AtMost(RootNames, MaxRootFiles)}
    \cup {{FileNode(<<n>>) : n \in S} \cup {DirNode(<<SubDir>>)}
             \cup {FileNode(<<SubDir, n>>) : n \in T} :
           S \in AtMost(RootNames \ {SubDir}, MaxRootFiles),
           T \in AtMost(SubNames, MaxSubFiles)}

NoArgs ==
  [directory |-> "target", prefix |-> "", postfix |-> "", remove_str |-> "",
   perform_clean |-> FALSE, mkfolders |-> FALSE, dry_run |-> FALSE]

\* The command lines of media-managed.py that pass its check that at least one
\* operation is selected.
MediaArgs ==
  {a \in {[NoArgs EXCEPT !.directory = d, !.prefix = p, !.mkfolders = m, !.dry_run = r] :
            d \in {"target", "missing"}, p \in {"", "x"}, m \in BOOLEAN, r \in BOOLEAN} :
     a.prefix # "" \/ a.mkfolders}

\* mkmediafold.py takes the target directory alone.
MkArgs == {[NoArgs EXCEPT !.directory = d] : d \in {"target", "missing"}}

\* predel.py takes the target directory and the prefix.
PredelArgs ==
  {[NoArgs EXCEPT !.directory = d, !.prefix = p] : d \in {"target", "missing"}, p \in {"", "x"}}

NoRun == [ran |-> FALSE, dry_run |-> FALSE, fsStart |-> {}, log |-> <<>>]

Entry(t) ==
  CASE t = "media-managed" -> "rename"
    [] t = "mkmediafold"   -> "promote"
    [] t = "predel"        -> "strip"

\* One of the three programs is run on a tree; media-managed.py may be run
\* with --dry-run first and then again without.
Init ==
  /\ tool \in {"media-managed", "mkmediafold", "predel"}
  /\ args \in (CASE tool = "media-managed" -> MediaArgs
                 [] tool = "mkmediafold"   -> MkArgs
                 [] tool = "predel"        -> PredelArgs)
  /\ plan \in (IF tool = "media-managed" /\ args.dry_run THEN {<<>>, <<FALSE>>} ELSE {<<>>})
  /\ fs \in (IF args.directory = "missing" THEN {{}} ELSE Trees)
  /\ fsStart = fs
  /\ pc = Entry(tool)
  /\ stack = <<>>
  /\ root = <<>>
  /\ files = <<>>
  /\ log = <<>>
  /\ prev = NoRun
  /\ failures = 0
  /\ filename = ""
  /\ out1 = ""
  /\ out2 = ""

transformVars == <<filename, out1, out2>>

(***************************************************************************)
(* os.walk, used by the renamer and by the prefix stripper.                *)
(***************************************************************************)
\* The walk has a directory to visit: its entries are listed now, its
\* subdirectories are pushed to be visited after its files are processed.
os_walk ==
  /\ pc \in {"walk", "strip_walk"}
  /\ files = <<>>
  /\ stack # <<>>
  /\ LET top     == Head(stack)
         names   == listdir(fs, top)
         dirs    == {n \in names : isdir(fs, top, n)}
         nondirs == names \ dirs
     IN  \E dorder \in Perms(dirs), forder \in Perms(nondirs) :
           /\ root' = top
           /\ files' = forder
           /\ stack' = [i \in 1..Len(dorder) |-> Append(top, dorder[i])] \o Tail(stack)
  /\ UNCHANGED <<tool, args, plan, pc, fs, fsStart, log, prev, failures, transformVars>>

\* The identity of the node at dir/name (<<>> when there is none).
OrigAt(F, dir, name) ==
  IF \E n \in F : n.path = Append(dir, name) THEN NodeAt(F, Append(dir, name)).orig ELSE <<>>

LogEntry(op, dir, name, new, folder, result, occupied) ==
  [op |-> op, dir |-> dir, name |-> name, new |-> new, folder |-> folder,
   result |-> result, orig |-> OrigAt(fs, dir, name), occupied |-> occupied]

(***************************************************************************)
(* media-managed.py: rename_files_in_directory.                            *)
(***************************************************************************)
\* A variant of conflict that never finds the new path taken.
conflict_never(F, dir, new_filename) == FALSE

\* A variant of simulated that takes every run for a live one.
simulated_never(a) == FALSE

\* A variant of after_error that gives the loop up.
abort_on_error(rest) == <<>>

\* The check before a rename: the new path is taken.
conflict(F, dir, new_filename) == exists(F, dir, new_filename)

\* The run only reports what it would do.
simulated(a) == a.dry_run

\* The files still to process after a rename raised OSError: the loop goes on.
after_error(rest) == rest

\* The function's start: it returns at once when the directory is missing,
\* else the walk starts at the directory.
rename_files_in_directory ==
  /\ pc = "rename"
  /\ IF args.directory = "missing"
     THEN /\ pc' = IF args.mkfolders THEN "promote" ELSE "exit"
          /\ UNCHANGED stack
     ELSE /\ pc' = "walk"
          /\ stack' = << <<>> >>
  /\ UNCHANGED <<tool, args, plan, fs, fsStart, root, files, log, prev, failures, transformVars>>

\* The loop body for one file of the directory being visited.
rename_file ==
  /\ pc = "walk"
  /\ files # <<>>
  /\ LET name == Head(files)
         new_filename == process_filename(name, args.prefix, args.postfix,
                                          args.remove_str, args.perform_clean)
         taken == new_filename # name /\ exists(fs, root, new_filename)
         entry(result) == LogEntry("rename", root, name, new_filename, "-", result, taken)
     IN  \/ /\ new_filename = name
            /\ log' = Append(log, entry("nochange"))
            /\ files' = Tail(files)
            /\ UNCHANGED <<fs, failures>>
         \/ /\ new_filename # name
            /\ conflict(fs, root, new_filename)
            /\ log' = Append(log, entry("conflict"))
            /\ files' = Tail(files)
            /\ UNCHANGED <<fs, failures>>
         \/ /\ new_filename # name
            /\ ~ conflict(fs, root, new_filename)
            /\ simulated(args)
            /\ log' = Append(log, entry("renamed"))
            /\ files' = Tail(files)
            /\ UNCHANGED <<fs, failures>>
         \/ /\ new_filename # name
            /\ ~ conflict(fs, root, new_filename)
            /\ ~ simulated(args)
            /\ ~ rename_raises(fs, root, name, new_filename)
            /\ fs' = os_rename(fs, root, name, new_filename)
            /\ log' = Append(log, entry("renamed"))
            /\ files' = Tail(files)
            /\ UNCHANGED failures
         \/ /\ new_filename # name
            /\ ~ conflict(fs, root, new_filename)
            /\ ~ simulated(args)
            /\ \/ rename_raises(fs, root, name, new_filename) /\ UNCHANGED failures
               \/ failures < MaxFailures /\ failures' = failures + 1
            /\ log' = Append(log, entry("failed"))
            /\ files' = after_error(Tail(files))
            /\ UNCHANGED fs
  /\ UNCHANGED <<tool, args, plan, pc, fsStart, stack, root, prev, transformVars>>

\* The walk is over: the function returns, and the promoter follows when asked for.
rename_done ==
  /\ pc = "walk"
  /\ files = <<>>
  /\ stack = <<>>
  /\ pc' = IF args.mkfolders THEN "promote" ELSE "exit"
  /\ UNCHANGED <<tool, args, plan, fs, fsStart, stack, root, files, log, prev, failures,
                 transformVars>>

(***************************************************************************)
(* The folder promoter: move_files_to_individual_folders of                *)
(* media-managed.py and build_folders_mv_files of mkmediafold.py.          *)
(***************************************************************************)
\* os.listdir(target_folder): the function returns when the folder is missing,
\* else it holds the names listed now.
list_items ==
  /\ pc = "promote"
  /\ IF args.directory = "missing"
     THEN /\ pc' = "exit"
          /\ UNCHANGED files
     ELSE /\ pc' = "items"
          /\ files' \in Perms(listdir(fs, <<>>))
  /\ UNCHANGED <<tool, args, plan, fs, fsStart, stack, root, log, prev, failures, transformVars>>

\* The move of one file into its folder, F being the filesystem after the
\* folder step and made its report.
move_step(F, name, folder_name, made, dry) ==
  LET entry(result) == LogEntry("promote", <<>>, name, folder_name, made, result, FALSE)
  IN  \/ /\ dry
         /\ fs' = F
         /\ log' = Append(log, entry("moved"))
         /\ UNCHANGED failures
      \/ /\ ~ dry
         /\ ~ move_raises(F, <<>>, name, folder_name)
         /\ fs' = shutil_move(F, <<>>, name, folder_name)
         /\ log' = Append(log, entry("moved"))
         /\ UNCHANGED failures
      \/ /\ ~ dry
         /\ move_raises(F, <<>>, name, folder_name)
         /\ fs' = F
         /\ log' = Append(log, entry("failed"))
         /\ UNCHANGED failures
      \/ /\ ~ dry
         /\ ~ move_raises(F, <<>>, name, folder_name)
         /\ failures < MaxFailures
         /\ failures' = failures + 1
         /\ fs' \in move_failed(F, <<>>, name, folder_name)
         /\ log' = Append(log, entry("failed"))

\* The loop body for one listed name.
promote_item(dry) ==
  /\ pc = "items"
  /\ files # <<>>
  /\ LET name == Head(files)
         folder_name == splitext(name)[1]
     IN  \/ /\ ~ isfile(fs, <<>>, name)
            /\ log' = Append(log, LogEntry("promote", <<>>, name, "", "-", "notafile", FALSE))
            /\ UNCHANGED <<fs, failures>>
         \/ /\ isfile(fs, <<>>, name)
            /\ exists(fs, <<>>, folder_name)
            /\ move_step(fs, name, folder_name, "exists", dry)
         \/ /\ isfile(fs, <<>>, name)
            /\ ~ exists(fs, <<>>, folder_name)
            /\ dry
            /\ move_step(fs, name, folder_name, "create", dry)
         \/ /\ isfile(fs, <<>>, name)
            /\ ~ exists(fs, <<>>, folder_name)
            /\ ~ dry
            /\ move_step(os_makedirs(fs, <<>>, folder_name), name, folder_name, "create", dry)
         \/ /\ isfile(fs, <<>>, name)
            /\ ~ exists(fs, <<>>, folder_name)
            /\ ~ dry
            /\ failures < MaxFailures
            /\ failures' = failures + 1
            /\ log' = Append(log, LogEntry("promote", <<>>, name, folder_name, "error", "failed", FALSE))
            /\ UNCHANGED fs
  /\ files' = Tail(files)
  /\ UNCHANGED <<tool, args, plan, pc, fsStart, stack, root, prev, transformVars>>

move_files_to_individual_folders ==
  /\ tool = "media-managed"
  /\ \/ list_items
     \/ promote_item(simulated(args))

build_folders_mv_files ==
  /\ tool = "mkmediafold"
  /\ \/ list_items
     \/ promote_item(FALSE)

\* Every listed name is processed: the function returns.
promote_done ==
  /\ pc = "items"
  /\ files = <<>>
  /\ pc' = "exit"
  /\ UNCHANGED <<tool, args, plan, fs, fsStart, stack, root, files, log, prev, failures,
                 transformVars>>

(***************************************************************************)
(* predel.py: strip_prefix_from_filenames.                                 *)
(***************************************************************************)
strip_prefix_from_filenames ==
  /\ pc = "strip"
  /\ IF args.directory = "missing"
     THEN /\ pc' = "exit"
          /\ UNCHANGED stack
     ELSE /\ pc' = "strip_walk"
          /\ stack' = << <<>> >>
  /\ UNCHANGED <<tool, args, plan, fs, fsStart, root, files, log, prev, failures, transformVars>>

\* The loop body for one file: it is renamed when its name starts with the prefix.
strip_file ==
  /\ pc = "strip_walk"
  /\ files # <<>>
  /\ LET name == Head(files)
         new_filename == Drop(name, Len(args.prefix))
         taken == new_filename # name /\ exists(fs, root, new_filename)
         entry(result) == LogEntry("strip", root, name, new_filename, "-", result, taken)
     IN  \/ /\ ~ startswith(name, args.prefix)
            /\ log' = Append(log, entry("nochange"))
            /\ UNCHANGED <<fs, failures>>
         \/ /\ startswith(name, args.prefix)
            /\ ~ rename_raises(fs, root, name, new_filename)
            /\ fs' = os_rename(fs, root, name, new_filename)
            /\ log' = Append(log, entry("renamed"))
            /\ UNCHANGED failures
         \/ /\ startswith(name, args.prefix)
            /\ \/ rename_raises(fs, root, name, new_filename) /\ UNCHANGED failures
               \/ failures < MaxFailures /\ failures' = failures + 1
            /\ log' = Append(log, entry("failed"))
            /\ UNCHANGED fs
  /\ files' = Tail(files)
  /\ UNCHANGED <<tool, args, plan, pc, fsStart, stack, root, prev, transformVars>>

strip_done ==
  /\ pc = "strip_walk"
  /\ files = <<>>
  /\ stack = <<>>
  /\ pc' = "exit"
  /\ UNCHANGED <<tool, args, plan, fs, fsStart, stack, root, files, log, prev, failures,
                 transformVars>>

(***************************************************************************)
(* The end of a run.                                                       *)
(***************************************************************************)
\* The program exits, and no run follows.
main_exit ==
  /\ pc = "exit"
  /\ plan = <<>>
  /\ pc' = "done"
  /\ UNCHANGED <<tool, args, plan, fs, fsStart, stack, root, files, log, prev, failures,
                 transformVars>>

\* The program exits and is run again, with the next dry_run flag.
main_again ==
  /\ pc = "exit"
  /\ plan # <<>>
  /\ pc' = Entry(tool)
  /\ args' = [args EXCEPT !.dry_run = Head(plan)]
  /\ plan' = Tail(plan)
  /\ prev' = [ran |-> TRUE, dry_run |-> args.dry_run, fsStart |-> fsStart, log |-> log]
  /\ fsStart' = fs
  /\ log' = <<>>
  /\ UNCHANGED <<tool, fs, stack, root, files, failures, transformVars>>

Next ==
  \/ rename_files_in_directory
  \/ os_walk
  \/ rename_file
  \/ rename_done
  \/ move_files_to_individual_folders
  \/ build_folders_mv_files
  \/ promote_done
  \/ strip_prefix_from_filenames
  \/ strip_file
  \/ strip_done
  \/ main_exit
  \/ main_again

Spec == Init /\ [][Next]_vars

\* The renamer on its own: media-managed.py run once, without --mkfolders.
InitRename ==
  /\ Init
  /\ tool = "media-managed"
  /\ ~ args.mkfolders
  /\ plan = <<>>

NextRename ==
  \/ rename_files_in_directory
  \/ os_walk
  \/ rename_file
  \/ rename_done
  \/ main_exit

SpecRename == InitRename /\ [][NextRename]_vars

\* The dry runs: media-managed.py run once with --dry-run, renamer and promoter.
InitDryRun ==
  /\ Init
  /\ tool = "media-managed"
  /\ args.dry_run
  /\ plan = <<>>

NextDryRun ==
  \/ rename_files_in_directory
  \/ os_walk
  \/ rename_file
  \/ rename_done
  \/ move_files_to_individual_folders
  \/ promote_done
  \/ main_exit

SpecDryRun == InitDryRun /\ [][NextDryRun]_vars

(***************************************************************************)
(* The transformer on its own: process_filename applied to a name, and     *)
(* again to its result.                                                    *)
(***************************************************************************)
\* The pieces input names are made of: letters, a space, a tab, separators, a
\* brace, and tokens of the removal list.
Pieces == {"a", "x", " ", "\t", ".", "-", "{", "h", "dr", "HdR", "dd5.1"}

RECURSIVE NamesOf(_)
NamesOf(k) ==
  IF k = 0 THEN {""}
  ELSE NamesOf(k - 1) \cup {s \o p : s \in NamesOf(k - 1), p \in Pieces}

TransformArgs ==
  {[NoArgs EXCEPT !.prefix = p, !.postfix = q, !.remove_str = r, !.perform_clean = c] :
     p \in {"", "x"}, q \in {"", "a"}, r \in {"", "xa"}, c \in BOOLEAN}

toolVars == <<tool, plan, fs, fsStart, stack, root, files, log, prev, failures>>

InitTransform ==
  /\ tool = "process_filename"
  /\ args \in TransformArgs
  /\ filename \in NamesOf(MaxPieces) \ {""}
  /\ out1 = ""
  /\ out2 = ""
  /\ pc = "start"
  /\ plan = <<>>
  /\ fs = {}
  /\ fsStart = {}
  /\ stack = <<>>
  /\ root = <<>>
  /\ files = <<>>
  /\ log = <<>>
  /\ prev = NoRun
  /\ failures = 0

transform(name, a) ==
  process_filename(name, a.prefix, a.postfix, a.remove_str, a.perform_clean)

\* The first pass over the name.
first_pass ==
  /\ pc = "start"
  /\ out1' = transform(filename, args)
  /\ pc' = "once"
  /\ UNCHANGED <<toolVars, args, filename, out2>>

\* A second pass, over the result of the first, with the same configuration.
second_pass ==
  /\ pc = "once"
  /\ out2' = transform(out1, args)
  /\ pc' = "twice"
  /\ UNCHANGED <<toolVars, args, filename, out1>>

NextTransform == first_pass \/ second_pass

SpecTransform == InitTransform /\ [][NextTransform]_vars

(***************************************************************************)
(* Properties of the transformer, checked under SpecTransform.             *)
(***************************************************************************)
Stem(name) == splitext(name)[1]

Extension(name) == splitext(name)[2]

\* The stem of the first pass's output: the output without the input's extension.
OutStem == Take(out1, Len(out1) - Len(Extension(filename)))

AfterLastDot(s) == Drop(s, LastDot(s))

\* Some token of the removal list occurs in s, ignoring case.
HasToken(s) == \E i \in DOMAIN chars_to_remove : Contains(Lower(s), chars_to_remove[i])

\* A second pass finds nothing to do in the stem s: no stage of the
\* configuration matches it.
Settled(s, a) ==
  /\ ~ (a.prefix # "" /\ startswith(s, a.prefix))
  /\ ~ (a.postfix # "" /\ endswith(s, a.postfix))
  /\ ~ (a.remove_str # "" /\ Contains(s, a.remove_str))
  /\ a.perform_clean =>
       /\ \A i \in 1..Len(s) :
            /\ ~ IsSeparator(Char(s, i))
            /\ Char(s, i) \notin {"{", "}"}
            /\ IsSpace(Char(s, i)) => Char(s, i) = " "
       /\ ~ HasToken(s)
       /\ ~ Contains(s, "  ")
       /\ s = "" \/ (Char(s, 1) # " " /\ Char(s, Len(s)) # " ")

\* C4, as claimed: a second pass with the same configuration over the
\* transformed name leaves it as it is.
Idempotent == pc = "twice" => out2 = out1

\* C4, amended: a second pass leaves the transformed name as it is whenever no
\* stage of the configuration matches the stem of that name any more.
IdempotentOnceSettled ==
  (pc = "twice" /\ Settled(Stem(out1), args)) => out2 = out1

\* C4: a name the first pass changed, by a prefix strip and a clean, and that
\* the second pass finds settled.
IdempotentWitness ==
  /\ pc = "twice"
  /\ Settled(Stem(out1), args)
  /\ args.prefix # ""
  /\ startswith(filename, args.prefix)
  /\ args.perform_clean
  /\ Contains(Lower(Stem(filename)), "hdr")
  /\ out1 # ""

\* C5, as claimed: what follows the final dot of the input follows the final
\* dot of the output, for every input with a dot.
ExtensionPreserved ==
  (pc # "start" /\ LastDot(filename) > 0) =>
     (LastDot(out1) > 0 /\ AfterLastDot(out1) = AfterLastDot(filename))

\* C5, amended: what follows the final dot of the input follows the final dot
\* of the output, for every input whose final dot comes after a character that
\* is not a dot (names ending in a dot included, dot-files not).
ExtensionPreservedAfterAStem ==
  (pc # "start" /\ \E i \in 1..(LastDot(filename) - 1) : Char(filename, i) # ".") =>
     (LastDot(out1) > 0 /\ AfterLastDot(out1) = AfterLastDot(filename))

\* C5: a name with an extension whose stem the clean step rewrote.
ExtensionWitness ==
  /\ pc = "once"
  /\ \E i \in 1..(LastDot(filename) - 1) : Char(filename, i) # "."
  /\ args.perform_clean
  /\ out1 # filename
  /\ AfterLastDot(filename) # ""

\* The stem as the clean step receives it.
StrippedStem ==
  remove_substring(strip_postfix(strip_prefix(Stem(filename), args.prefix), args.postfix),
                   args.remove_str)

\* The stem with every occurrence of a token deleted, longest token first, and
\* then the separators, braces and whitespace of the clean step normalised.
TokensDeleted(s) ==
  strip(join(split(replace(replace(SubSeparators(SubTokens(s, pattern_to_remove)), "{"), "}"))))

\* C6: with perform_clean, every occurrence of a token in the stem is removed
\* whole, so that the output stem holds no token and no fragment of one.
CleanRemovesEveryToken ==
  (pc # "start" /\ args.perform_clean) =>
     (~ HasToken(OutStem) /\ OutStem = TokensDeleted(StrippedStem))

\* The reference pipeline of the strip stages.
RefPrefix(s, p) ==
  IF p # "" /\ Len(p) <= Len(s) /\ SubSeq(s, 1, Len(p)) = p THEN SubSeq(s, Len(p) + 1, Len(s)) ELSE s

RefPostfix(s, q) ==
  IF q # "" /\ Len(q) <= Len(s) /\ SubSeq(s, Len(s) - Len(q) + 1, Len(s)) = q
  THEN SubSeq(s, 1, Len(s) - Len(q)) ELSE s

RECURSIVE RefDeleteAll(_, _)
RefDeleteAll(s, r) ==
  LET at == {i \in 1..(Len(s) - Len(r) + 1) : SubSeq(s, i, i + Len(r) - 1) = r}
  IN  IF r = "" \/ at = {} THEN s
      ELSE LET i == CHOOSE k \in at : \A j \in at : k <= j
           IN  SubSeq(s, 1, i - 1) \o RefDeleteAll(SubSeq(s, i + Len(r), Len(s)), r)

RefPipeline(s, a) == RefDeleteAll(RefPostfix(RefPrefix(s, a.prefix), a.postfix), a.remove_str)

\* C7, as claimed: without clean, the output is the reference pipeline applied
\* to the stem, followed by the extension, no other character altered.
StripsOnlyMatchedSpans ==
  (pc # "start" /\ ~ args.perform_clean) =>
     out1 = RefPipeline(Stem(filename), args) \o Extension(filename)

\* C7, amended: without clean, the output is the reference pipeline applied to
\* the stem, with the whitespace at both ends of the result trimmed when the
\* pipeline changed the stem, followed by the extension.
StripsThenTrims ==
  (pc # "start" /\ ~ args.perform_clean) =>
     out1 = IF RefPipeline(Stem(filename), args) # Stem(filename)
            THEN strip(RefPipeline(Stem(filename), args)) \o Extension(filename)
            ELSE filename

\* C7: a prefix was stripped from the stem of a name with an extension, and
\* the result was trimmed.
StripsWitness ==
  /\ pc = "once"
  /\ ~ args.perform_clean
  /\ args.prefix # "" /\ startswith(Stem(filename), args.prefix)
  /\ strip(RefPipeline(Stem(filename), args)) # RefPipeline(Stem(filename), args)
  /\ Extension(filename) # ""

(***************************************************************************)
(* Properties of the tools, checked under Spec.                            *)
(***************************************************************************)
FilesOf(F) == {n \in F : n.kind = "file"}

DirOf(path) == Take(path, Len(path) - 1)

NameOf(path) == path[Len(path)]

FilesIn(F, dir) == {n \in FilesOf(F) : DirOf(n.path) = dir}

DirsOf(F) == {<<>>} \cup {n.path : n \in {m \in F : m.kind = "dir"}}

RenameEntries == {i \in DOMAIN log : log[i].op = "rename"}

\* A live run of the renamer is under way, or over with no promoter after it.
LiveRename ==
  /\ tool = "media-managed"
  /\ ~ args.dry_run
  /\ pc = "walk" \/ (pc \in {"exit", "done"} /\ ~ args.mkfolders)

\* C1: in a live run of the renamer every file the run started with is still
\* there, in its directory, no directory has gained or lost a file, and a file
\* whose new name was taken is reported as a conflict and keeps its name.
NeverOverwrite ==
  LiveRename =>
    /\ \A n \in FilesOf(fsStart) :
         \E m \in FilesOf(fs) : m.orig = n.orig /\ DirOf(m.path) = DirOf(n.path)
    /\ \A d \in DirsOf(fsStart) : Cardinality(FilesIn(fs, d)) = Cardinality(FilesIn(fsStart, d))
    /\ \A m1, m2 \in fs : m1.path = m2.path => m1 = m2
    /\ \A i \in RenameEntries :
         /\ log[i].occupied => log[i].result = "conflict"
         /\ log[i].result = "conflict" =>
              \E m \in fs : m.path = Append(log[i].dir, log[i].name) /\ m.orig = log[i].orig

\* C1: a live run is over in which a file was renamed and a later file of the
\* same directory, computing the same new name, was skipped as a conflict.
NeverOverwriteWitness ==
  /\ LiveRename
  /\ pc = "done"
  /\ \E i, j \in RenameEntries :
       /\ i < j
       /\ log[i].result = "renamed"
       /\ log[j].result = "conflict"
       /\ log[j].dir = log[i].dir
       /\ log[j].new = log[i].new

\* What a run reported for its items: each item with its outcome.
Items(l) == [i \in DOMAIN l |-> <<l[i].op, l[i].dir, l[i].name>>]

Outcomes(l) == [i \in DOMAIN l |-> <<l[i].op, l[i].dir, l[i].name, l[i].folder, l[i].result>>]

\* C2: a dry run reports for each item the outcome that the live run, started
\* from the same filesystem and visiting the items in the same order, reports
\* (no filesystem call of the live run failing from outside).
DryRunPredictsLive ==
  ( /\ tool = "media-managed"
    /\ pc = "done"
    /\ prev.ran /\ prev.dry_run /\ ~ args.dry_run
    /\ prev.fsStart = fsStart
    /\ failures = 0
    /\ Items(prev.log) = Items(log) ) =>
  Outcomes(prev.log) = Outcomes(log)

\* C3: a dry run of media-managed.py, renamer and promoter, leaves the
\* filesystem as it found it.
DryRunChangesNothing ==
  (tool = "media-managed" /\ args.dry_run) => fs = fsStart

\* C3: a dry run is over that reported a rename, a folder to create and a move.
DryRunWitness ==
  /\ tool = "media-managed"
  /\ args.dry_run
  /\ pc = "done"
  /\ \E i \in DOMAIN log : log[i].op = "rename" /\ log[i].result = "renamed"
  /\ \E i \in DOMAIN log :
       log[i].op = "promote" /\ log[i].folder = "create" /\ log[i].result = "moved"

\* The renamer's walk is over.
RenameOver ==
  /\ tool = "media-managed"
  /\ args.directory = "target"
  /\ pc \in {"promote", "items", "exit", "done"}

\* C8: no file is processed twice, and once the walk is over every file the
\* run started with was processed once, under the name and in the directory it
\* had, a failed rename not ending the walk.
ExactlyOnce ==
  /\ tool = "media-managed" =>
       \A n \in FilesOf(fsStart) :
         Cardinality({i \in RenameEntries : log[i].orig = n.orig}) <= 1
  /\ RenameOver =>
       /\ \A n \in FilesOf(fsStart) :
            \E i \in RenameEntries :
              log[i].orig = n.orig /\ Append(log[i].dir, log[i].name) = n.path
       /\ Cardinality(RenameEntries) = Cardinality(FilesOf(fsStart))

\* C8: the walk is over, a rename failed, a file was processed after it, and a
\* file of the subdirectory was processed after a rename in the directory above.
ExactlyOnceWitness ==
  /\ RenameOver
  /\ \E i, j \in RenameEntries : i < j /\ log[i].result = "failed"
  /\ \E i, j \in RenameEntries :
       i < j /\ log[i].result = "renamed" /\ log[i].dir = <<>> /\ log[j].dir # <<>>

\* A live run of the promoter on the tree the program started with.
LivePromote ==
  \/ tool = "mkmediafold"
  \/ tool = "media-managed" /\ ~ args.dry_run /\ args.mkfolders /\ args.prefix = ""

\* C9: after a live run of the promoter every file that was in the target
\* directory is still there, at its path or in the folder named after its stem
\* (no filesystem call of the run failing from outside).
PromotionKeepsFiles ==
  (LivePromote /\ failures = 0) =>
    \A n \in FilesIn(fsStart, <<>>) :
      \E m \in FilesOf(fs) :
        /\ m.orig = n.orig
        /\ m.path \in {n.path, <<Stem(NameOf(n.path)), NameOf(n.path)>>}

\* C10: after the prefix stripper every file is still there, in its directory,
\* under its name or its name without the prefix, and no directory has lost a file.
StripKeepsFiles ==
  tool = "predel" =>
    /\ \A n \in FilesOf(fsStart) :
         \E m \in FilesOf(fs) :
           /\ m.orig = n.orig
           /\ DirOf(m.path) = DirOf(n.path)
           /\ NameOf(m.path) \in {NameOf(n.path), strip_prefix(NameOf(n.path), args.prefix)}
    /\ \A d \in DirsOf(fsStart) : Cardinality(FilesIn(fs, d)) = Cardinality(FilesIn(fsStart, d))

====
